---- MODULE Spec2Model ----
(***************************************************************************)
(* Model of the ingestion engine of htskksmp.py: the field cleaners         *)
(* (clean_jan, clean_dept, parse_date_str), the two normalisers             *)
(* (process_format_1, process_format_2_from_df) and the prober load_data.   *)
(*                                                                         *)
(* Text is a sequence of one-character strings, so that substring tests,    *)
(* regular-expression matches and numeric parsing are computed rather than  *)
(* assumed.  An ASCII character stands for itself; a kana or kanji is one   *)
(* element named by its reading ("BU" for 部, "MON" for 門), so that one    *)
(* source character is one element.  A Python value is a record             *)
(* [t, s, n, f]:                                                           *)
(*   t = "str"    a str, s its characters                                   *)
(*   t = "nan"    float NaN (a missing cell)                                *)
(*   t = "none"   None                                                      *)
(*   t = "int"    the int n                                                 *)
(*   t = "num"    a finite float: n its integer part (truncated toward 0),  *)
(*                f in {-1,0,1} the sign of its fractional part             *)
(*   t = "inf"    an infinite float of sign n                               *)
(*   t = "date"   a datetime.date, n = year*10000 + month*100 + day         *)
(*   t = "series" a pandas Series (a lookup that matched several columns)   *)
(*   t = "exc"    a raised exception, s = <<its class name>>                *)
(***************************************************************************)
EXTENDS Integers, Sequences, FiniteSets, TLC

Str(s) == [t |-> "str", s |-> s, n |-> 0, f |-> 0]
NaN == [t |-> "nan", s |-> <<>>, n |-> 0, f |-> 0]
PyNone == [t |-> "none", s |-> <<>>, n |-> 0, f |-> 0]
PyInt(n) == [t |-> "int", s |-> <<>>, n |-> n, f |-> 0]
Num(n, f) == [t |-> "num", s |-> <<>>, n |-> n, f |-> f]
Inf(sign) == [t |-> "inf", s |-> <<>>, n |-> sign, f |-> 0]
Date(y, m, d) == [t |-> "date", s |-> <<>>, n |-> y * 10000 + m * 100 + d, f |-> 0]
Series == [t |-> "series", s |-> <<>>, n |-> 0, f |-> 0]
Exc(name) == [t |-> "exc", s |-> <<name>>, n |-> 0, f |-> 0]

IsExc(v) == v.t = "exc"

(***************************************************************************)
(* Text primitives                                                         *)
(***************************************************************************)
DigitChars == <<"0", "1", "2", "3", "4", "5", "6", "7", "8", "9">>

IsDigit(c) == \E i \in 1..10 : DigitChars[i] = c

DigitVal(c) == (CHOOSE i \in 1..10 : DigitChars[i] = c) - 1

AllDigits(s) == \A i \in 1..Len(s) : IsDigit(s[i])

RECURSIVE ToNat(_)
ToNat(s) == IF s = <<>> THEN 0
            ELSE 10 * ToNat(SubSeq(s, 1, Len(s) - 1)) + DigitVal(s[Len(s)])

RECURSIVE NatToStr(_)
NatToStr(n) == IF n < 10 THEN <<DigitChars[n + 1]>>
               ELSE NatToStr(n \div 10) \o <<DigitChars[(n % 10) + 1]>>

\* str(i) for a Python int
IntToStr(i) == IF i < 0 THEN <<"-">> \o NatToStr(0 - i) ELSE NatToStr(i)

\* k in s
IsSubstr(k, s) ==
    \E i \in 0..(Len(s) - Len(k)) : SubSeq(s, i + 1, i + Len(k)) = k

\* s[from:]
Drop(s, k) == SubSeq(s, k + 1, Len(s))

RECURSIVE LStrip(_)
LStrip(s) == IF s # <<>> /\ s[1] = " " THEN LStrip(Drop(s, 1)) ELSE s

RECURSIVE RStrip(_)
RStrip(s) == IF s # <<>> /\ s[Len(s)] = " " THEN RStrip(SubSeq(s, 1, Len(s) - 1)) ELSE s

\* str.strip()
Strip(s) == RStrip(LStrip(s))

RECURSIVE Zeros(_)
Zeros(k) == IF k <= 0 THEN <<>> ELSE <<"0">> \o Zeros(k - 1)

\* str.zfill(w): pads after a leading sign
zfill(s, w) ==
    IF Len(s) >= w THEN s
    ELSE IF s # <<>> /\ s[1] \in {"+", "-"}
         THEN <<s[1]>> \o Zeros(w - Len(s)) \o Drop(s, 1)
         ELSE Zeros(w - Len(s)) \o s

\* str(v) of a Python value
PyStr(v) ==
    CASE v.t = "str" -> v.s
      [] v.t = "nan" -> <<"n", "a", "n">>
      [] v.t = "none" -> <<"N", "o", "n", "e">>
      [] v.t = "int" -> IntToStr(v.n)
      [] OTHER -> <<"<", v.t, ">">>

(***************************************************************************)
(* float(x): text with an optional sign, then inf / nan or decimal digits   *)
(* with an optional fraction (texts with exponents or underscores are not   *)
(* among the modelled cells)                                               *)
(***************************************************************************)
InfWords == {<<"i", "n", "f">>, <<"I", "n", "f">>, <<"I", "N", "F">>,
             <<"i", "n", "f", "i", "n", "i", "t", "y">>}

NanWords == {<<"n", "a", "n">>, <<"N", "a", "N">>, <<"N", "A", "N">>}

DotAt(s) == IF \E i \in 1..Len(s) : s[i] = "."
            THEN CHOOSE i \in 1..Len(s) : s[i] = "." /\ \A j \in 1..(i - 1) : s[j] # "."
            ELSE 0

FloatOfText(text) ==
    LET t0 == Strip(text)
        signed == t0 # <<>> /\ t0[1] \in {"+", "-"}
        neg == t0 # <<>> /\ t0[1] = "-"
        body == IF signed THEN Drop(t0, 1) ELSE t0
        dot == DotAt(body)
        ip == IF dot = 0 THEN body ELSE SubSeq(body, 1, dot - 1)
        fp == IF dot = 0 THEN <<>> ELSE Drop(body, dot)
        fnz == \E i \in 1..Len(fp) : fp[i] # "0"
    IN  IF body \in InfWords THEN Inf(IF neg THEN -1 ELSE 1)
        ELSE IF body \in NanWords THEN NaN
        ELSE IF AllDigits(ip) /\ AllDigits(fp) /\ Len(ip) + Len(fp) > 0
             THEN Num(IF neg THEN 0 - ToNat(ip) ELSE ToNat(ip),
                      IF ~fnz THEN 0 ELSE IF neg THEN -1 ELSE 1)
             ELSE Exc("ValueError")

PyFloat(v) ==
    CASE v.t = "str" -> FloatOfText(v.s)
      [] v.t = "int" -> Num(v.n, 0)
      [] v.t \in {"num", "inf", "nan"} -> v
      [] OTHER -> Exc("TypeError")

\* int(x) of a float
PyIntOfFloat(x) ==
    CASE x.t = "num" -> PyInt(x.n)
      [] x.t = "nan" -> Exc("ValueError")
      [] x.t = "inf" -> Exc("OverflowError")
      [] OTHER -> x

(***************************************************************************)
(* Field cleaners                                                          *)
(***************************************************************************)
\* the except clause of clean_dept: the exception classes it handles
clean_dept_handles == {"ValueError", "TypeError"}

clean_dept(dept_val) ==
    LET i == PyIntOfFloat(PyFloat(dept_val))
    IN  IF IsExc(i)
        THEN IF i.s[1] \in clean_dept_handles
             THEN Str(<<"0", "0", "0">>)
             ELSE i
        ELSE Str(zfill(IntToStr(i.n), 3))

Quotes == {"'", "\""}

clean_jan(jan_val) ==
    LET s0 == Strip(PyStr(jan_val))
        s1 == IF s0 # <<>> /\ s0[1] \in Quotes THEN Drop(s0, 1) ELSE s0
        s2 == IF s1 # <<>> /\ s1[Len(s1)] \in Quotes THEN SubSeq(s1, 1, Len(s1) - 1) ELSE s1
        s3 == IF Len(s2) >= 2 /\ SubSeq(s2, Len(s2) - 1, Len(s2)) = <<".", "0">>
              THEN SubSeq(s2, 1, Len(s2) - 2) ELSE s2
    IN  Str(s3)

(***************************************************************************)
(* Calendar                                                                *)
(***************************************************************************)
\* datetime.date.today().year
TodayYear == 2026

IsLeap(y) == (y % 4 = 0 /\ y % 100 # 0) \/ y % 400 = 0

DaysIn(y, m) ==
    IF m = 2 THEN (IF IsLeap(y) THEN 29 ELSE 28)
    ELSE IF m \in {4, 6, 9, 11} THEN 30 ELSE 31

ValidDate(y, m, d) ==
    /\ y >= 1 /\ y <= 9999
    /\ m >= 1 /\ m <= 12
    /\ d >= 1 /\ d <= DaysIn(y, m)

\* datetime.date(y, m, d), ValueError when out of range
MakeDate(y, m, d) == IF ValidDate(y, m, d) THEN Date(y, m, d) ELSE Exc("ValueError")

YearOf(dt) == dt.n \div 10000

\* s.lower() == 'nan'
LowerIsNan(s) ==
    /\ Len(s) = 3
    /\ s[1] \in {"n", "N"} /\ s[2] \in {"a", "A"} /\ s[3] \in {"n", "N"}

\* re.match(r'(\d{1,2})/(\d{1,2})', s): <<month, day>> as numbers, <<>> on no match
MatchMD(s) ==
    LET mlen == IF Len(s) >= 3 /\ IsDigit(s[1]) /\ IsDigit(s[2]) /\ s[3] = "/" THEN 2
                ELSE IF Len(s) >= 2 /\ IsDigit(s[1]) /\ s[2] = "/" THEN 1
                ELSE 0
        rest == Drop(s, mlen + 1)
        dlen == IF Len(rest) >= 2 /\ IsDigit(rest[1]) /\ IsDigit(rest[2]) THEN 2
                ELSE IF Len(rest) >= 1 /\ IsDigit(rest[1]) THEN 1
                ELSE 0
    IN  IF mlen = 0 \/ dlen = 0 THEN <<>>
        ELSE <<ToNat(SubSeq(s, 1, mlen)), ToNat(SubSeq(rest, 1, dlen))>>

\* re.search(r'\d{1,2}/\d{1,2}', s) finds a match
SearchMD(s) ==
    \E i \in 1..(Len(s) - 2) : IsDigit(s[i]) /\ s[i + 1] = "/" /\ IsDigit(s[i + 2])

\* pd.to_datetime(s).date(): the generic parser, on the texts that carry a
\* 4-digit year (YYYY/M/D, YYYY-M-D); any other text raises
to_datetime(s) ==
    LET okHead == Len(s) >= 8 /\ AllDigits(SubSeq(s, 1, 4)) /\ s[5] \in {"/", "-"}
        r1 == Drop(s, 5)
        mlen == IF Len(r1) >= 2 /\ IsDigit(r1[1]) /\ IsDigit(r1[2]) THEN 2
                ELSE IF Len(r1) >= 1 /\ IsDigit(r1[1]) THEN 1 ELSE 0
        r2 == Drop(r1, mlen)
        okSep == r2 # <<>> /\ r2[1] = s[5]
        r3 == Drop(r2, 1)
    IN  IF okHead /\ mlen > 0 /\ okSep /\ Len(r3) \in {1, 2} /\ AllDigits(r3)
        THEN MakeDate(ToNat(SubSeq(s, 1, 4)), ToNat(SubSeq(r1, 1, mlen)), ToNat(r3))
        ELSE Exc("ValueError")

\* datetime.datetime.strptime(s, '%Y%m%d').date() on an 8-digit text
strptime_Ymd(s) ==
    MakeDate(ToNat(SubSeq(s, 1, 4)), ToNat(SubSeq(s, 5, 6)), ToNat(SubSeq(s, 7, 8)))

parse_date_str(date_str, default_year) ==
    LET year == IF default_year = PyNone THEN TodayYear ELSE default_year.n
        s == Strip(PyStr(date_str))
        d8 == IF Len(s) = 8 /\ AllDigits(s) THEN strptime_Ymd(s) ELSE Exc("ValueError")
        md == MatchMD(s)
        dmd == IF md # <<>> THEN MakeDate(year, md[1], md[2]) ELSE Exc("ValueError")
        dgen == to_datetime(s)
    IN  IF s = <<>> \/ LowerIsNan(s) THEN PyNone
        ELSE IF ~IsExc(d8) THEN d8
        ELSE IF ~IsExc(dmd) THEN dmd
        ELSE IF ~IsExc(dgen) THEN dgen
        ELSE PyNone

(***************************************************************************)
(* Labels.  One element per source character.                              *)
(***************************************************************************)
NOUHINBI == <<"NOU", "HIN", "BI">>                 \* 納品日
NOUNYUUBI == <<"NOU", "NYUU", "BI">>               \* 納入日
HACCHUUBI == <<"HATSU", "CHUU", "BI">>             \* 発注日
HIDUKE == <<"BI", "DUKE">>                         \* 日付
BUMON == <<"BU", "MON">>                           \* 部門
BUMONCODE == <<"BU", "MON", "KO", "CHOON", "DO">>  \* 部門コード
SHOUHINCODE == <<"SHOU", "HIN", "KO", "CHOON", "DO">>  \* 商品コード
JANCODE == <<"J", "A", "N", "KO", "CHOON", "DO">>  \* JANコード
JAN == <<"J", "A", "N">>                           \* JAN
JanCode == <<"J", "a", "n", "C", "o", "d", "e">>   \* JanCode
SHOUHINMEI == <<"SHOU", "HIN", "MEI">>             \* 商品名
SHOUHINMEISHOU == <<"SHOU", "HIN", "MEI", "TONAE">>  \* 商品名称
HINMEI == <<"HIN", "MEI">>                         \* 品名
HACCHUUSUURYOU == <<"HATSU", "CHUU", "SUU", "RYOU">>  \* 発注数量
SUURYOU == <<"SUU", "RYOU">>                       \* 数量
SUU == <<"SUU">>                                   \* 数
URITANKA == <<"URI", "TAN", "KA">>                 \* 売単価
BAIKA == <<"URI", "KA">>                           \* 売価
TANKA == <<"TAN", "KA">>                           \* 単価
HACCHUUKUBUN == <<"HATSU", "CHUU", "KU", "BUN">>   \* 発注区分
HANSOKU == <<"HAN", "SOKU">>                       \* 販促
TOKUBAIKUBUN == <<"TOKU", "URI", "KU", "BUN">>     \* 特売区分
SHUUGOUKEI == <<"SHUU", "GOU", "KEI">>             \* 週合計
UNNAMED == <<"U", "n", "n", "a", "m", "e", "d">>   \* Unnamed

\* the unified column names
COL_DATE == "date"
COL_DEPT == "department"
COL_JAN == "jan"
COL_NAME == "product_name"
COL_QTY == "quantity"
COL_PRICE == "unit_price"
COL_PROMO == "promotion"

Range(q) == {q[i] : i \in 1..Len(q)}

RECURSIVE Flatten(_)
Flatten(qq) == IF qq = <<>> THEN <<>> ELSE Head(qq) \o Flatten(Tail(qq))

\* the result of a normaliser or of read_csv: a frame, or a raised exception
Frame(recs) == [exc |-> "", recs |-> recs]
Raised(e) == [exc |-> e, recs |-> <<>>]

\* pd.to_numeric(v, errors='coerce')
to_numeric(v) ==
    CASE v.t = "str" -> (LET x == FloatOfText(v.s) IN IF IsExc(x) THEN NaN ELSE x)
      [] v.t = "int" -> Num(v.n, 0)
      [] v.t = "none" -> NaN
      [] OTHER -> v

\* .fillna(0)
fillna0(v) == IF v.t = "nan" THEN Num(0, 0) ELSE v

\* pd.isna(v) of a scalar
isna(v) == v.t \in {"nan", "none"}

IsZero(x) == x.t = "num" /\ x.n = 0 /\ x.f = 0

(***************************************************************************)
(* process_format_1: the List normaliser.  df = [columns, rows]; columns    *)
(* is the sequence of labels, rows a sequence of rows of cells (a str or    *)
(* NaN each, as read with dtype=str).  The source labels of the modelled    *)
(* frames are never the unified names themselves.                          *)
(***************************************************************************)
col_mappings ==
    [date |-> <<NOUHINBI, NOUNYUUBI, HACCHUUBI, HIDUKE>>,
     department |-> <<BUMON, BUMONCODE>>,
     jan |-> <<SHOUHINCODE, JANCODE, JAN, JanCode>>,
     product_name |-> <<SHOUHINMEI, SHOUHINMEISHOU, HINMEI>>,
     quantity |-> <<HACCHUUSUURYOU, SUURYOU, SUU>>,
     unit_price |-> <<URITANKA, BAIKA, TANKA>>,
     promotion |-> <<HACCHUUKUBUN, HANSOKU, TOKUBAIKUBUN>>]

\* the first candidate that is a column; <<>> stands for None
find_column(df_cols, candidates) ==
    IF \E i \in 1..Len(candidates) : candidates[i] \in Range(df_cols)
    THEN candidates[CHOOSE i \in 1..Len(candidates) :
                        /\ candidates[i] \in Range(df_cols)
                        /\ \A j \in 1..(i - 1) : candidates[j] \notin Range(df_cols)]
    ELSE <<>>

\* position of a label among the columns
ColIdx(df_cols, label) == CHOOSE i \in 1..Len(df_cols) : df_cols[i] = label

\* the cell of a row under the column renamed to a unified name, or the
\* value the missing column is filled with
Cell1(df, row, unified, fill) ==
    LET found == find_column(df.columns, col_mappings[unified])
    IN  IF found # <<>> THEN row[ColIdx(df.columns, found)] ELSE fill

\* .fillna("").astype(str).replace(['nan', 'None'], '')
promo_text(v) ==
    LET s == IF v.t = "nan" THEN <<>> ELSE PyStr(v)
    IN  IF s \in {<<"n", "a", "n">>, <<"N", "o", "n", "e">>} THEN Str(<<>>) ELSE Str(s)

\* the converted row, before dropna
Row1(df, row) ==
    [date |-> parse_date_str(Cell1(df, row, COL_DATE, NaN), PyNone),
     department |-> clean_dept(Cell1(df, row, COL_DEPT, PyInt(0))),
     jan |-> clean_jan(Cell1(df, row, COL_JAN, NaN)),
     product_name |-> Cell1(df, row, COL_NAME, PyInt(0)),
     quantity |-> fillna0(to_numeric(Cell1(df, row, COL_QTY, PyInt(0)))),
     unit_price |-> fillna0(to_numeric(Cell1(df, row, COL_PRICE, PyInt(0)))),
     promotion |-> promo_text(Cell1(df, row, COL_PROMO, Str(<<>>)))]

\* the required columns are resolved
Resolved1(df) ==
    /\ find_column(df.columns, col_mappings[COL_DATE]) # <<>>
    /\ find_column(df.columns, col_mappings[COL_JAN]) # <<>>

process_format_1(df) ==
    LET conv == [i \in 1..Len(df.rows) |-> Row1(df, df.rows[i])]
        bad == {i \in 1..Len(conv) : IsExc(conv[i].department)}
    IN  IF ~Resolved1(df) THEN Frame(<<>>)
        ELSE IF bad # {}
             THEN Raised(conv[CHOOSE i \in bad : \A j \in bad : i <= j].department.s[1])
             ELSE Frame(SelectSeq(conv, LAMBDA r : r.date # PyNone))

(***************************************************************************)
(* process_format_2_from_df: the Matrix normaliser.  df.columns is the      *)
(* sequence of <<top, bottom>> label pairs of the two header rows, as read: *)
(* both are text, a blank header cell reading "Unnamed: i_level_k".         *)
(***************************************************************************)
\* a top label takes part in the forward fill as the current heading
sets_last_top(s_top) == ~IsSubstr(UNNAMED, s_top) /\ ~IsSubstr(SHUUGOUKEI, s_top)

\* the loop over df.columns: new_cols, a sequence of <<top value, bottom>>
RECURSIVE forward_fill(_, _)
forward_fill(cols, last_top) ==
    IF cols = <<>> THEN <<>>
    ELSE LET top == Head(cols)[1]
             bottom == Head(cols)[2]
             last == IF sets_last_top(top) THEN Str(top) ELSE last_top
             final_top == IF IsSubstr(UNNAMED, top) THEN last ELSE Str(top)
         IN  <<<<final_top, bottom>>>> \o forward_fill(Tail(cols), last)

new_cols_of(df) == forward_fill(df.columns, PyNone)

\* the role the column analysis gives a column of new_cols
col_role(c) ==
    LET s_top == PyStr(c[1])
        s_bottom == c[2]
    IN  IF IsSubstr(JAN, s_top) \/ IsSubstr(JAN, s_bottom)
           \/ IsSubstr(SHOUHINCODE, s_top) \/ IsSubstr(SHOUHINCODE, s_bottom)
        THEN "jan"
        ELSE IF IsSubstr(BUMON, s_top) \/ IsSubstr(BUMON, s_bottom) THEN "dept"
        ELSE IF IsSubstr(SHOUHINMEI, s_top) \/ IsSubstr(SHOUHINMEI, s_bottom) THEN "name"
        ELSE IF c[1] # PyNone /\ ~IsSubstr(SHUUGOUKEI, s_top) /\ SearchMD(s_top) THEN "date"
        ELSE "none"

\* the key of the first column with a role (next(... fixed_col_map.items())),
\* <<>> for None
fixed_key(new_cols, role) ==
    IF \E i \in 1..Len(new_cols) : col_role(new_cols[i]) = role
    THEN new_cols[CHOOSE i \in 1..Len(new_cols) :
                      /\ col_role(new_cols[i]) = role
                      /\ \A j \in 1..(i - 1) : col_role(new_cols[j]) # role]
    ELSE <<>>

\* date_cols: the distinct tops of the date columns, in order
RECURSIVE date_cols_of(_, _)
date_cols_of(new_cols, seen) ==
    IF new_cols = <<>> THEN <<>>
    ELSE LET c == Head(new_cols)
             add == col_role(c) = "date" /\ c[1] \notin seen
         IN  (IF add THEN <<c[1]>> ELSE <<>>)
             \o date_cols_of(Tail(new_cols), IF add THEN seen \cup {c[1]} ELSE seen)

\* row[key] / row.get(key, default): the cell, a Series when several columns
\* carry the key, the default when none does
row_get(new_cols, row, key, default) ==
    LET hits == {i \in 1..Len(new_cols) : new_cols[i] = key}
    IN  IF hits = {} THEN default
        ELSE IF Cardinality(hits) = 1 THEN row[CHOOSE i \in hits : TRUE]
        ELSE Series

\* one pass of the inner loop: <<record>>, or <<>> when the pair is skipped
group_record(new_cols, row, date_str, year_hint, jan, dept, name) ==
    LET date_obj == parse_date_str(date_str, year_hint)
        qty_val == row_get(new_cols, row, <<date_str, SUURYOU>>, PyNone)
        qty == to_numeric(qty_val)
        price == to_numeric(row_get(new_cols, row, <<date_str, BAIKA>>, PyInt(0)))
        promo_val == row_get(new_cols, row, <<date_str, HANSOKU>>, PyNone)
        promo_str == IF isna(promo_val) THEN Str(<<>>) ELSE Str(PyStr(promo_val))
        d == clean_dept(dept)
    IN  IF date_obj = PyNone THEN <<>>
        ELSE IF qty_val.t = "series" THEN <<>>         \* ValueError, swallowed
        ELSE IF isna(qty_val) THEN <<>>
        ELSE IF isna(qty) \/ IsZero(qty) THEN <<>>
        ELSE IF promo_val.t = "series" THEN <<>>       \* ValueError, swallowed
        ELSE IF IsExc(d) THEN <<>>                     \* swallowed by the bare except
        ELSE <<[date |-> date_obj,
                department |-> d,
                jan |-> clean_jan(jan),
                product_name |-> name,
                quantity |-> qty,
                unit_price |-> price,
                promotion |-> promo_str]>>

\* the records of one source row
row_records(new_cols, row, year_hint) ==
    LET jan_key == fixed_key(new_cols, "jan")
        dept_key == fixed_key(new_cols, "dept")
        name_key == fixed_key(new_cols, "name")
        jan == IF jan_key # <<>> THEN row_get(new_cols, row, jan_key, PyNone) ELSE PyNone
        dept == IF dept_key # <<>> THEN row_get(new_cols, row, dept_key, PyNone)
                ELSE Str(<<"0", "0", "0">>)
        name == IF name_key # <<>> THEN row_get(new_cols, row, name_key, PyNone)
                ELSE Str(<<>>)
        dates == date_cols_of(new_cols, {})
    IN  IF isna(jan) THEN <<>>
        ELSE Flatten([k \in 1..Len(dates) |->
                 group_record(new_cols, row, dates[k], year_hint, jan, dept, name)])

process_format_2_from_df(df, year_hint) ==
    LET new_cols == new_cols_of(df)
        jan_key == fixed_key(new_cols, "jan")
        jan_dup == jan_key # <<>>
                   /\ Cardinality({i \in 1..Len(new_cols) : new_cols[i] = jan_key}) > 1
    IN  IF jan_dup /\ df.rows # <<>>
        THEN Raised("ValueError")      \* if pd.isna(<Series>), outside the try
        ELSE Frame(Flatten([i \in 1..Len(df.rows) |->
                      row_records(new_cols, df.rows[i], year_hint)]))

(***************************************************************************)
(* The uploaded file.  A file is [enc, lines]: enc names the encoding the   *)
(* non-ASCII text of the file was written in, and a line is [bin, fields]:  *)
(* bin marks bytes that no encoding of the list decodes, fields are the     *)
(* comma-separated fields of the line (no field holds a comma or a quote,   *)
(* so a keyword occurs in the line iff it occurs in a field).  A blank line *)
(* has no fields.                                                          *)
(***************************************************************************)
KanaKanji == {"NOU", "HIN", "BI", "NYUU", "HATSU", "CHUU", "DUKE", "BU", "MON", "KO",
              "CHOON", "DO", "SHOU", "MEI", "TONAE", "SUU", "RYOU", "URI", "TAN", "KA",
              "KU", "BUN", "HAN", "SOKU", "TOKU", "SHUU", "GOU", "KEI", "SUI"}

IsAsciiLine(line) ==
    \A i \in 1..Len(line.fields) :
        \A j \in 1..Len(line.fields[i]) : line.fields[i][j] \notin KanaKanji

\* the encodings that decode text written in an encoding family
DecodableBy(fenc) ==
    IF fenc = "utf8" THEN {"utf-8-sig", "utf-8"} ELSE {"cp932", "shift_jis"}

\* line.decode(enc) succeeds
Decodes(f, line, enc) ==
    ~line.bin /\ (IsAsciiLine(line) \/ enc \in DecodableBy(f.enc))

\* kw in line
LineHas(fields, kw) == \E i \in 1..Len(fields) : IsSubstr(kw, fields[i])

(***************************************************************************)
(* pd.read_csv(file, header=..., encoding=enc, on_bad_lines='skip',         *)
(* dtype=str), read from offset 0: the stream is decoded as a whole, blank  *)
(* lines are skipped before the header rows are counted, a blank header     *)
(* cell is named Unnamed, a repeated single-row label is suffixed, a short  *)
(* row is padded with NaN and an over-long row is dropped.                  *)
(***************************************************************************)
NaWords == {<<>>, <<"n", "a", "n">>, <<"N", "a", "N">>, <<"N", "A">>, <<"n", "u", "l", "l">>}

csv_cell(text) == IF text \in NaWords THEN NaN ELSE Str(text)

csv_row(fields, ncols) ==
    [i \in 1..ncols |-> IF i <= Len(fields) THEN csv_cell(fields[i]) ELSE NaN]

unnamed1(i) == UNNAMED \o <<":", " ">> \o NatToStr(i - 1)

unnamed2(i, level) == UNNAMED \o <<":", " ">> \o NatToStr(i - 1)
                      \o <<"_", "l", "e", "v", "e", "l", "_">> \o NatToStr(level)

\* the labels of a single header row
header1(fields) ==
    LET named == [i \in 1..Len(fields) |->
                      IF fields[i] = <<>> THEN unnamed1(i) ELSE fields[i]]
        before(i) == Cardinality({j \in 1..(i - 1) : named[j] = named[i]})
    IN  [i \in 1..Len(fields) |->
            IF before(i) = 0 THEN named[i] ELSE named[i] \o <<".">> \o NatToStr(before(i))]

\* the label pairs of two header rows
header2(top, bottom) ==
    [i \in 1..Len(top) |->
        <<IF top[i] = <<>> THEN unnamed2(i, 0) ELSE top[i],
          IF bottom[i] = <<>> THEN unnamed2(i, 1) ELSE bottom[i]>>]

read_csv(f, header, enc) ==
    LET undec == \E i \in 1..Len(f.lines) : ~Decodes(f, f.lines[i], enc)
        nonblank == SelectSeq(f.lines, LAMBDA l : l.fields # <<>>)
        last == header[Len(header)]
        top == nonblank[header[1] + 1].fields
        bottom == nonblank[last + 1].fields
        ncols == Len(top)
        body == SelectSeq(SubSeq(nonblank, last + 2, Len(nonblank)),
                          LAMBDA l : Len(l.fields) <= ncols)
        rows == [i \in 1..Len(body) |-> csv_row(body[i].fields, ncols)]
    IN  IF undec THEN [exc |-> "UnicodeDecodeError", columns |-> <<>>, rows |-> <<>>]
        ELSE IF last + 1 > Len(nonblank)
             THEN [exc |-> "ParserError", columns |-> <<>>, rows |-> <<>>]
        ELSE IF Len(header) = 1
             THEN [exc |-> "", columns |-> header1(top), rows |-> rows]
        ELSE IF Len(bottom) # ncols
                \/ \E i \in 1..ncols : top[i] = <<>> /\ bottom[i] = <<>>
             THEN [exc |-> "ParserError", columns |-> <<>>, rows |-> <<>>]
             ELSE [exc |-> "", columns |-> header2(top, bottom), rows |-> rows]

(***************************************************************************)
(* The files of the model: up to MaxPre leading lines, a header (a List     *)
(* header row, the two rows of a Matrix header built from a first date      *)
(* block and up to MaxBlocks further column blocks, or none), and up to     *)
(* MaxRows data rows.                                                      *)
(***************************************************************************)
MaxPre == 1
MaxBlocks == 1
MaxRows == 2

SeqsUpTo(S, n) == UNION {[1..k -> S] : k \in 0..n}

TextLine(fields) == [bin |-> FALSE, fields |-> fields]

PreLines == {TextLine(<<<<"2", "0", "2", "4">>>>),     \* a line reading 2024
             TextLine(<<>>),                          \* a blank line
             [bin |-> TRUE, fields |-> <<<<"?">>>>]}   \* undecodable bytes

ListHeaders ==
    {<<NOUHINBI, BUMON, JAN, SHOUHINMEI, SUURYOU, TANKA>>,
     <<NOUHINBI, JAN, SUURYOU>>,
     <<NOUNYUUBI, BUMON, SHOUHINCODE, SUURYOU>>}

\* a column block of a Matrix header: the top label and the sub-labels under it
FirstBlock == [top |-> <<"0", "1", "/", "2", "1">>, subs |-> <<SUURYOU, BAIKA>>]

Blocks ==
    {[top |-> <<"0", "1", "/", "2", "2">>, subs |-> <<SUURYOU>>],
     [top |-> <<"2", "/", "3", "0">>, subs |-> <<SUURYOU>>],
     [top |-> SHUUGOUKEI, subs |-> <<SUURYOU, BAIKA>>]}

\* the cell texts of a data row
ListRows ==
    {[date |-> <<"2", "0", "2", "4", "/", "0", "1", "/", "2", "1">>, dept |-> <<"3">>,
      jan |-> <<"4", "9", "0", "1">>, name |-> <<"W">>,
      q1 |-> <<"5">>, q2 |-> <<"5">>, price |-> <<"1", "0", "0">>],
     [date |-> <<"1", "/", "2", "1">>, dept |-> <<"0", "0", "3">>,
      jan |-> <<"'", "4", "9", "0", "1">>, name |-> <<>>,
      q1 |-> <<"0">>, q2 |-> <<"0">>, price |-> <<"a", "b", "c">>],
     [date |-> <<"a", "b", "c">>, dept |-> <<"a", "b", "c">>,
      jan |-> <<"4", "9", "0", "1">>, name |-> <<"W">>,
      q1 |-> <<"5">>, q2 |-> <<"5">>, price |-> <<"1", "0", "0">>],
     [date |-> <<"2", "0", "2", "4", "0", "1", "2", "1">>, dept |-> <<"i", "n", "f">>,
      jan |-> <<"4", "9", "0", "1", ".", "0">>, name |-> <<"W">>,
      q1 |-> <<"a", "b", "c">>, q2 |-> <<"5">>, price |-> <<"-", "5">>]}

MatrixRows ==
    {[date |-> <<>>, dept |-> <<"3">>, jan |-> <<"4", "9", "0", "1">>, name |-> <<>>,
      q1 |-> <<"2">>, q2 |-> <<"0">>, price |-> <<"5", "0">>],
     [date |-> <<>>, dept |-> <<"1", "2", "3", "4">>, jan |-> <<"4", "9", "0", "1">>,
      name |-> <<>>, q1 |-> <<"2">>, q2 |-> <<"-", "1">>, price |-> <<"a", "b", "c">>],
     [date |-> <<>>, dept |-> <<"i", "n", "f">>, jan |-> <<"4", "9", "0", "1">>,
      name |-> <<>>, q1 |-> <<"2">>, q2 |-> <<"a", "b", "c">>, price |-> <<"5", "0">>],
     [date |-> <<>>, dept |-> <<"3">>, jan |-> <<>>, name |-> <<>>,
      q1 |-> <<"2">>, q2 |-> <<"2">>, price |-> <<"5", "0">>]}

\* the text of a List data row under a header row
list_line(labels, r) ==
    TextLine([i \in 1..Len(labels) |->
        IF labels[i] \in Range(col_mappings[COL_DATE]) THEN r.date
        ELSE IF labels[i] \in Range(col_mappings[COL_DEPT]) THEN r.dept
        ELSE IF labels[i] \in Range(col_mappings[COL_JAN]) THEN r.jan
        ELSE IF labels[i] \in Range(col_mappings[COL_NAME]) THEN r.name
        ELSE IF labels[i] \in Range(col_mappings[COL_QTY]) THEN r.q1
        ELSE r.price])

Blanks(k) == [i \in 1..k |-> <<>>]

matrix_top(blocks) ==
    <<BUMON, JAN>> \o Flatten([k \in 1..Len(blocks) |->
                        <<blocks[k].top>> \o Blanks(Len(blocks[k].subs) - 1)])

matrix_bottom(blocks) ==
    <<<<>>, <<>>>> \o Flatten([k \in 1..Len(blocks) |-> blocks[k].subs])

\* the text of a Matrix data row: odd blocks carry q1, even blocks q2
matrix_line(blocks, r) ==
    TextLine(<<r.dept, r.jan>> \o Flatten([k \in 1..Len(blocks) |->
        [j \in 1..Len(blocks[k].subs) |->
            IF blocks[k].subs[j] = SUURYOU
            THEN (IF k % 2 = 1 THEN r.q1 ELSE r.q2)
            ELSE r.price]]))

ListFiles ==
    {[h |-> <<TextLine(h)>>, rows |-> [i \in 1..Len(rs) |-> list_line(h, rs[i])]] :
        h \in ListHeaders, rs \in SeqsUpTo(ListRows, MaxRows)}

MatrixFiles ==
    {[h |-> <<TextLine(matrix_top(bs)), TextLine(matrix_bottom(bs))>>,
      rows |-> [i \in 1..Len(rs) |-> matrix_line(bs, rs[i])]] :
        bs \in {<<FirstBlock>> \o more : more \in SeqsUpTo(Blocks, MaxBlocks)},
        rs \in SeqsUpTo(MatrixRows, MaxRows)}

\* no header line at all: an empty file, or leading lines only
BareFiles == {[h |-> <<>>, rows |-> <<>>]}

Files ==
    {[enc |-> e, lines |-> pre \o b.h \o b.rows] :
        e \in {"utf8", "sjis"},
        pre \in SeqsUpTo(PreLines, MaxPre),
        b \in ListFiles \cup MatrixFiles \cup BareFiles}

(***************************************************************************)
(* load_data                                                               *)
(***************************************************************************)
VARIABLES
    file,               \* uploaded_file: the bytes, as lines
    pc,                 \* position in load_data
    enc_i,              \* index of enc in encodings (0 before the loop)
    pos,                \* the file position, in lines
    nread,              \* iterations of the readline loop done
    raw_lines,          \* the decoded lines (their fields)
    header_row_idx,
    is_matrix_format,
    year_hint,
    df,                 \* the frame read_csv returned
    processed,          \* the frame the normaliser returned
    exc,                \* the exception being handled, "" for none
    result,             \* the returned frame
    raised,             \* the exception that left load_data, "" for none
    tried,              \* history: the encodings attempted, in order
    calls               \* history: the normaliser calls, [enc, fmt, header, line, out]

vars == <<file, pc, enc_i, pos, nread, raw_lines, header_row_idx, is_matrix_format,
          year_hint, df, processed, exc, result, raised, tried, calls>>

encodings_bom_legacy_plain == <<"utf-8-sig", "cp932", "shift_jis", "utf-8">>
encodings == <<"utf-8-sig", "utf-8", "cp932", "shift_jis">>

\* range(15)
ScanLimit == 15

enc == encodings[enc_i]

\* uploaded_file.seek(offset): the file position after the call
seek_stays(position, offset) == position
seek(position, offset) == offset

\* what a read from a position on sees of the file
rest_of(f, position) == [f EXCEPT !.lines = Drop(f.lines, position)]

\* the header test of the scan
is_header_line(line) ==
    LineHas(line, BUMON) /\ (LineHas(line, JAN) \/ LineHas(line, SHOUHINCODE))

\* the format branch on the header line
classify_any_date_alias(line) ==
    ~\E i \in 1..Len(col_mappings[COL_DATE]) : LineHas(line, col_mappings[COL_DATE][i])
classify_matrix(line) == ~(LineHas(line, NOUHINBI) \/ LineHas(line, HACCHUUBI))

\* index (from 0) of the first header line of raw_lines, -1 when there is none
find_header(lines) ==
    IF \E i \in 1..Len(lines) : is_header_line(lines[i])
    THEN (CHOOSE i \in 1..Len(lines) :
              /\ is_header_line(lines[i])
              /\ \A j \in 1..(i - 1) : ~is_header_line(lines[j])) - 1
    ELSE -1

\* re.search(r'20\d{2}', s): the matched number, -1 on no match
search_year(s) ==
    LET hit(i) == s[i] = "2" /\ s[i + 1] = "0" /\ IsDigit(s[i + 2]) /\ IsDigit(s[i + 3])
        at == {i \in 1..(Len(s) - 3) : hit(i)}
    IN  IF at = {} THEN -1
        ELSE LET i == CHOOSE i \in at : \A j \in at : i <= j
             IN  ToNat(SubSeq(s, i, i + 3))

\* year_hint from full_text, the joined raw_lines: the first match
year_hint_of(lines) ==
    LET flat == Flatten(lines)
        at == {i \in 1..Len(flat) : search_year(flat[i]) # -1}
    IN  IF at = {} THEN PyNone
        ELSE PyInt(search_year(flat[CHOOSE i \in at : \A j \in at : i <= j]))

\* except Exception: the exceptions the handler of load_data catches
handler_catches_lookup(e) == e \in {"ValueError", "TypeError", "KeyError", "IndexError"}
handler_catches(e) == TRUE

NoFrame == [exc |-> "", columns |-> <<>>, rows |-> <<>>]

Init ==
    /\ file \in Files
    /\ pc = "loop"
    /\ enc_i = 0
    /\ pos = 0
    /\ nread = 0
    /\ raw_lines = <<>>
    /\ header_row_idx = -1
    /\ is_matrix_format = FALSE
    /\ year_hint = PyNone
    /\ df = NoFrame
    /\ processed = Frame(<<>>)
    /\ exc = ""
    /\ result = Frame(<<>>)
    /\ raised = ""
    /\ tried = <<>>
    /\ calls = <<>>

\* the condition under which each step of load_data is taken
Guard ==
    [NextEncoding |-> pc = "loop" /\ enc_i < Len(encodings),
     ReturnEmpty |-> pc = "loop" /\ enc_i = Len(encodings),
     ReadLine |-> pc = "read" /\ nread < ScanLimit /\ pos < Len(file.lines),
     FindHeader |-> pc = "read" /\ (nread = ScanLimit \/ pos = Len(file.lines)),
     ReadList |-> pc = "parse" /\ ~is_matrix_format,
     ReadMatrix |-> pc = "parse" /\ is_matrix_format,
     NormaliseList |-> pc = "normalise" /\ ~is_matrix_format,
     NormaliseMatrix |-> pc = "normalise" /\ is_matrix_format,
     Except |-> pc = "except",
     ReturnProcessed |-> pc = "check" /\ processed.recs # <<>>,
     NextCandidate |-> pc = "check" /\ processed.recs = <<>>]

\* for enc in encodings: uploaded_file.seek(0)
NextEncoding ==
    /\ Guard.NextEncoding
    /\ enc_i' = enc_i + 1
    /\ pos' = seek(pos, 0)
    /\ nread' = 0
    /\ raw_lines' = <<>>
    /\ tried' = Append(tried, encodings[enc_i + 1])
    /\ pc' = "read"
    /\ UNCHANGED <<file, header_row_idx, is_matrix_format, year_hint, df, processed, exc,
                   result, raised, calls>>

\* the loop is exhausted: return pd.DataFrame()
ReturnEmpty ==
    /\ Guard.ReturnEmpty
    /\ result' = Frame(<<>>)
    /\ pc' = "done"
    /\ UNCHANGED <<file, enc_i, pos, nread, raw_lines, header_row_idx, is_matrix_format,
                   year_hint, df, processed, exc, raised, tried, calls>>

\* one readline of the scan; a line that does not decode is left out
ReadLine ==
    /\ Guard.ReadLine
    /\ pos' = pos + 1
    /\ nread' = nread + 1
    /\ raw_lines' = IF Decodes(file, file.lines[pos + 1], enc)
                    THEN Append(raw_lines, file.lines[pos + 1].fields)
                    ELSE raw_lines
    /\ UNCHANGED <<file, pc, enc_i, header_row_idx, is_matrix_format, year_hint, df,
                   processed, exc, result, raised, tried, calls>>

\* the scan ends (15 lines read, or end of file) and the header is looked for
FindHeader ==
    /\ Guard.FindHeader
    /\ header_row_idx' = find_header(raw_lines)
    /\ is_matrix_format' = IF header_row_idx' = -1 THEN FALSE
                           ELSE classify_matrix(raw_lines[header_row_idx' + 1])
    /\ pc' = IF raw_lines = <<>> \/ header_row_idx' = -1 THEN "loop" ELSE "parse"
    /\ UNCHANGED <<file, enc_i, pos, nread, raw_lines, year_hint, df, processed, exc,
                   result, raised, tried, calls>>

\* Format 1: seek(0) and read_csv with one header row
ReadList ==
    /\ Guard.ReadList
    /\ pos' = Len(file.lines)
    /\ df' = read_csv(rest_of(file, seek(pos, 0)), <<header_row_idx>>, enc)
    /\ exc' = df'.exc
    /\ pc' = IF exc' # "" THEN "except" ELSE "normalise"
    /\ UNCHANGED <<file, enc_i, nread, raw_lines, header_row_idx, is_matrix_format,
                   year_hint, processed, result, raised, tried, calls>>

\* Format 2: seek(0), year_hint from full_text, read_csv with two header rows
ReadMatrix ==
    /\ Guard.ReadMatrix
    /\ pos' = Len(file.lines)
    /\ year_hint' = year_hint_of(raw_lines)
    /\ df' = read_csv(rest_of(file, seek(pos, 0)),
                    <<header_row_idx, header_row_idx + 1>>, enc)
    /\ exc' = df'.exc
    /\ pc' = IF exc' # "" THEN "except" ELSE "normalise"
    /\ UNCHANGED <<file, enc_i, nread, raw_lines, header_row_idx, is_matrix_format,
                   processed, result, raised, tried, calls>>

\* processed = process_format_1(df)
NormaliseList ==
    /\ Guard.NormaliseList
    /\ processed' = process_format_1(df)
    /\ calls' = Append(calls, [enc |-> enc, fmt |-> "list", header |-> header_row_idx,
                               line |-> raw_lines[header_row_idx + 1],
                               out |-> processed'])
    /\ exc' = processed'.exc
    /\ pc' = IF exc' # "" THEN "except" ELSE "check"
    /\ UNCHANGED <<file, enc_i, pos, nread, raw_lines, header_row_idx, is_matrix_format,
                   year_hint, df, result, raised, tried>>

\* processed = process_format_2_from_df(df, year_hint=year_hint)
NormaliseMatrix ==
    /\ Guard.NormaliseMatrix
    /\ processed' = process_format_2_from_df(df, year_hint)
    /\ calls' = Append(calls, [enc |-> enc, fmt |-> "matrix", header |-> header_row_idx,
                               line |-> raw_lines[header_row_idx + 1],
                               out |-> processed'])
    /\ exc' = processed'.exc
    /\ pc' = IF exc' # "" THEN "except" ELSE "check"
    /\ UNCHANGED <<file, enc_i, pos, nread, raw_lines, header_row_idx, is_matrix_format,
                   year_hint, df, result, raised, tried>>

\* except Exception: continue
Except ==
    /\ Guard.Except
    /\ IF handler_catches(exc)
       THEN pc' = "loop" /\ raised' = raised
       ELSE pc' = "done" /\ raised' = exc
    /\ exc' = ""
    /\ UNCHANGED <<file, enc_i, pos, nread, raw_lines, header_row_idx, is_matrix_format,
                   year_hint, df, processed, result, tried, calls>>

\* if not processed.empty: return processed
ReturnProcessed ==
    /\ Guard.ReturnProcessed
    /\ result' = processed
    /\ pc' = "done"
    /\ UNCHANGED <<file, enc_i, pos, nread, raw_lines, header_row_idx, is_matrix_format,
                   year_hint, df, processed, exc, raised, tried, calls>>

\* processed is empty: on to the next encoding
NextCandidate ==
    /\ Guard.NextCandidate
    /\ pc' = "loop"
    /\ UNCHANGED <<file, enc_i, pos, nread, raw_lines, header_row_idx, is_matrix_format,
                   year_hint, df, processed, exc, result, raised, tried, calls>>

Next ==
    \/ NextEncoding
    \/ ReturnEmpty
    \/ ReadLine
    \/ FindHeader
    \/ ReadList
    \/ ReadMatrix
    \/ NormaliseList
    \/ NormaliseMatrix
    \/ Except
    \/ ReturnProcessed
    \/ NextCandidate

Spec == Init /\ [][Next]_vars

(***************************************************************************)
(* Claims                                                                  *)
(***************************************************************************)
Last(q) == q[Len(q)]

\* the normaliser has just returned a frame / has just raised
AfterList == ~is_matrix_format /\ df.exc = "" /\ pc \in {"check", "except"}
AfterMatrix == is_matrix_format /\ df.exc = "" /\ pc \in {"check", "except"}

\* steps of one pass of the encoding loop, at most
PassLen == ScanLimit + 6

\* a measure that every step of load_data increases and the return bounds
rank ==
    IF pc = "done" THEN (Len(encodings) + 2) * PassLen
    ELSE enc_i * PassLen
         + (CASE pc = "read" -> nread
              [] pc = "parse" -> ScanLimit + 1
              [] pc = "normalise" -> ScanLimit + 2
              [] pc = "except" -> ScanLimit + 3
              [] pc = "check" -> ScanLimit + 4
              [] OTHER -> ScanLimit + 5)

\* C1: load_data is total.  Whatever the bytes, no exception leaves load_data,
\* it terminates (before its return some step is always due, and every step
\* increases a bounded measure), and when no normaliser call produced
\* records the returned collection is empty.
C1_Total ==
    /\ [](raised = "")
    /\ [](pc = "done" \/ \E a \in DOMAIN Guard : Guard[a])
    /\ [][rank' > rank]_vars
    /\ [](rank <= (Len(encodings) + 2) * PassLen)
    /\ [](pc = "done" /\ (\A i \in 1..Len(calls) : calls[i].out.recs = <<>>)
            => result.recs = <<>>)

\* an attempt raised inside load_data, and load_data still returned, empty
C1_Witness ==
    /\ pc = "done"
    /\ result.recs = <<>>
    /\ \E i \in 1..Len(calls) : calls[i].out.exc = "OverflowError"

\* --- Matrix frames, read off df.columns as the file gives them -----------
\* the column that heads the block of column i: the nearest real top label
block_head(cols, i) ==
    CHOOSE j \in 1..i : /\ ~IsSubstr(UNNAMED, cols[j][1])
                        /\ \A k \in (j + 1)..i : IsSubstr(UNNAMED, cols[k][1])

has_head(cols, i) == \E j \in 1..i : ~IsSubstr(UNNAMED, cols[j][1])

\* column i belongs to a weekly-total block
in_weekly_block(cols, i) ==
    has_head(cols, i) /\ IsSubstr(SHUUGOUKEI, cols[block_head(cols, i)][1])

\* the heads of the date-column groups: blocks whose label is a date
date_heads(cols, year) ==
    {j \in 1..Len(cols) :
        /\ ~IsSubstr(UNNAMED, cols[j][1])
        /\ ~IsSubstr(SHUUGOUKEI, cols[j][1])
        /\ parse_date_str(Str(cols[j][1]), year) # PyNone}

\* the quantity cell of a row in the group headed by column j, NaN if none
group_qty(cols, row, j) ==
    LET qs == {i \in j..Len(cols) :
                  has_head(cols, i) /\ block_head(cols, i) = j /\ cols[i][2] = SUURYOU}
    IN  IF qs = {} THEN NaN ELSE row[CHOOSE i \in qs : \A k \in qs : i <= k]

\* a quantity that is present, numeric and non-zero
counts_qty(v) ==
    /\ v.t = "str"
    /\ ~IsExc(FloatOfText(v.s))
    /\ FloatOfText(v.s).t # "nan"
    /\ ~IsZero(FloatOfText(v.s))

\* the product-code cell of a row
jan_cell(cols, row) ==
    LET js == {i \in 1..Len(cols) :
                  \/ IsSubstr(JAN, cols[i][1]) \/ IsSubstr(JAN, cols[i][2])
                  \/ IsSubstr(SHOUHINCODE, cols[i][1]) \/ IsSubstr(SHOUHINCODE, cols[i][2])}
    IN  IF js = {} THEN NaN ELSE row[CHOOSE i \in js : \A k \in js : i <= k]

\* M of a row: its date groups with a counting quantity
row_M(cols, row, year) ==
    IF jan_cell(cols, row).t # "str" THEN 0
    ELSE Cardinality({j \in date_heads(cols, year) : counts_qty(group_qty(cols, row, j))})

RECURSIVE Sum(_)
Sum(q) == IF q = <<>> THEN 0 ELSE Head(q) + Sum(Tail(q))

\* C2: Matrix unpivot emits, for every source row with a product code, exactly
\* one record per date-column group whose quantity is present, numeric and
\* non-zero, and none for any other group or for a row without product code.
C2_Unpivot ==
    AfterMatrix =>
        /\ processed.exc = ""
        /\ Len(processed.recs)
             = Sum([i \in 1..Len(df.rows) |-> row_M(df.columns, df.rows[i], year_hint)])

\* C3: forward fill never assigns a column of a weekly-total block (its
\* labelled cell or the placeholder cells after it) to a date-column group,
\* and the (date, sub-label) keys of the date groups stay unique.
C3_WeeklyExcluded ==
    (is_matrix_format /\ df.exc = "" /\ pc = "normalise") =>
        LET nc == new_cols_of(df)
        IN  /\ \A i \in 1..Len(nc) :
                  in_weekly_block(df.columns, i) => col_role(nc[i]) # "date"
            /\ \A i, j \in 1..Len(nc) :
                  (col_role(nc[i]) = "date" /\ nc[i] = nc[j]) => i = j

\* --- List frames ----------------------------------------------------------
\* the rows of df whose date cell parses
parsing_rows(d) ==
    SelectSeq(d.rows, LAMBDA r : parse_date_str(Cell1(d, r, COL_DATE, NaN), PyNone) # PyNone)

\* the quantity the claim gives a row: its number, 0 when it is not one
claimed_qty(v) ==
    IF v.t = "str" /\ ~IsExc(FloatOfText(v.s)) /\ FloatOfText(v.s).t # "nan"
    THEN FloatOfText(v.s) ELSE Num(0, 0)

\* C4: when the date and product-code columns resolve, process_format_1
\* returns exactly one record per input row whose date parses, in input
\* order, and keeps a row whose quantity is 0 or non-numeric with quantity 0.
C4_OnePerRow ==
    (AfterList /\ Resolved1(df)) =>
        LET rows == parsing_rows(df)
        IN  /\ processed.exc = ""
            /\ Len(processed.recs) = Len(rows)
            /\ \A k \in 1..Len(rows) :
                  /\ processed.recs[k].jan = clean_jan(Cell1(df, rows[k], COL_JAN, NaN))
                  /\ processed.recs[k].quantity
                        = claimed_qty(Cell1(df, rows[k], COL_QTY, PyInt(0)))

\* --- whole files ----------------------------------------------------------
\* a List file whose first line is the header: the header resolves the date
\* and the product code, every line decodes, and some row has a date
list_input(f) ==
    /\ f.lines # <<>>
    /\ \A i \in 1..Len(f.lines) : ~f.lines[i].bin
    /\ Resolved1([columns |-> f.lines[1].fields])
    /\ \E i \in 2..Len(f.lines) :
          parse_date_str(Cell1([columns |-> f.lines[1].fields],
                               csv_row(f.lines[i].fields, Len(f.lines[1].fields)),
                               COL_DATE, NaN), PyNone) # PyNone

has_dept_column(f) == find_column(f.lines[1].fields, col_mappings[COL_DEPT]) # <<>>

\* C5: a List input is rejected only when its date or product-code column
\* cannot be resolved: a file without department column is ingested with
\* department "000" on every record, and a header carrying any date alias
\* of the normaliser is handled as List.
C5_OptionalColumns ==
    (pc = "done" /\ list_input(file)) =>
        /\ ~has_dept_column(file) =>
              /\ result.recs # <<>>
              /\ \A k \in 1..Len(result.recs) :
                    result.recs[k].department = Str(<<"0", "0", "0">>)
        /\ \A i \in 1..Len(calls) : calls[i].fmt = "list"

\* --- the prober ------------------------------------------------------------
IsPrefix(p, q) == Len(p) <= Len(q) /\ p = SubSeq(q, 1, Len(p))

\* the prober has left the candidate of the last call behind
advanced == pc \in {"loop", "done"}

same_candidate(a, b) == a.enc = b.enc /\ a.header = b.header

\* C6 as stated: on every candidate the List parse is tried first and, when
\* it returns an empty result, the Matrix parse is tried on the same
\* candidate before the prober advances.
C6_ListThenMatrix ==
    /\ \A i \in 1..Len(calls) :
          (calls[i].fmt = "list" /\ calls[i].out.recs = <<>>
              /\ (i < Len(calls) \/ advanced))
          => \E j \in (i + 1)..Len(calls) :
                calls[j].fmt = "matrix" /\ same_candidate(calls[i], calls[j])
    /\ \A j \in 1..Len(calls) :
          calls[j].fmt = "matrix"
          => \E i \in 1..(j - 1) :
                calls[i].fmt = "list" /\ same_candidate(calls[i], calls[j])

\* C6, amended: for each encoding load_data makes at most one parse attempt,
\* on the first header line of the scan: the List parse when that line
\* contains one of the two date labels NOUHINBI or HACCHUUBI, the Matrix parse
\* otherwise, never both.  An attempt that comes back empty (or raises) sends
\* the prober to the next encoding, and the result returned is the one of
\* the last attempt.
C6_OneParsePerEncoding ==
    /\ \A i \in 1..Len(calls) :
          /\ is_header_line(calls[i].line)
          /\ calls[i].fmt = IF LineHas(calls[i].line, NOUHINBI)
                               \/ LineHas(calls[i].line, HACCHUUBI)
                            THEN "list" ELSE "matrix"
    /\ \A i, j \in 1..Len(calls) : calls[i].enc = calls[j].enc => i = j
    /\ \A i \in 1..(Len(calls) - 1) : calls[i].out.recs = <<>>
    /\ pc = "done" => result.recs = IF calls = <<>> THEN <<>> ELSE Last(calls).out.recs

\* a List attempt came back empty and load_data returned without any Matrix
\* attempt
C6_Witness ==
    /\ pc = "done"
    /\ \E i \in 1..Len(calls) : calls[i].fmt = "list" /\ calls[i].out = Frame(<<>>)
    /\ \A i \in 1..Len(calls) : calls[i].fmt = "list"

\* C7 as stated: the encodings are tried in the order BOM UTF-8, cp932,
\* shift_jis, plain UTF-8, and the first non-empty result ends the probing.
C7_LegacyBeforePlain ==
    /\ IsPrefix(tried, <<"utf-8-sig", "cp932", "shift_jis", "utf-8">>)
    /\ (pc = "done" /\ result.recs # <<>>) => Last(calls).enc = Last(tried)

\* position of an encoding among the ones tried so far
tried_at(e) == CHOOSE i \in 1..Len(tried) : tried[i] = e

\* C7, amended: the encodings are tried in the order BOM UTF-8, plain UTF-8,
\* cp932, shift_jis.  The attempts follow that order, the first non-empty
\* result is returned and no later encoding is tried after it, an empty
\* result is returned only after all four were tried, and in every state
\* at most one step of load_data is due (the run is determined by the file).
C7_EncodingOrder ==
    /\ IsPrefix(tried, <<"utf-8-sig", "utf-8", "cp932", "shift_jis">>)
    /\ \A i \in 1..Len(calls) : calls[i].enc \in Range(tried)
    /\ \A i, j \in 1..Len(calls) :
          i < j => tried_at(calls[i].enc) < tried_at(calls[j].enc)
    /\ (pc = "done" /\ result.recs # <<>>) =>
          /\ Last(calls).enc = Last(tried)
          /\ result = Last(calls).out
          /\ \A i \in 1..(Len(calls) - 1) : calls[i].out.recs = <<>>
    /\ (pc = "done" /\ result.recs = <<>>) =>
          /\ Len(tried) = 4
          /\ \A i \in 1..Len(calls) : calls[i].out.recs = <<>>
    /\ Cardinality({a \in DOMAIN Guard : Guard[a]}) <= 1

\* a file in a legacy encoding is returned from the third encoding tried,
\* after both UTF-8 attempts failed
C7_Witness ==
    /\ pc = "done"
    /\ result.recs # <<>>
    /\ tried = <<"utf-8-sig", "utf-8", "cp932">>

\* --- field values ----------------------------------------------------------
\* the year the claim gives the M/D dates of the file being read
claimed_hint == year_hint_of(raw_lines)

claimed_year == IF claimed_hint = PyNone THEN TodayYear ELSE claimed_hint.n

\* C8: every date parsed from an M/D value of a file (a date cell of a List
\* file, a date header of a Matrix file) falls in the year found in the
\* leading text of the file, in the current year when there is none, and a
\* valid 8-digit value gives its own date.
C8_YearInference ==
    /\ AfterMatrix =>
          \A k \in 1..Len(processed.recs) : YearOf(processed.recs[k].date) = claimed_year
    /\ (AfterList /\ Resolved1(df) /\ processed.exc = "") =>
          LET rows == parsing_rows(df)
          IN  \A k \in 1..Len(rows) :
                 LET cell == Cell1(df, rows[k], COL_DATE, NaN)
                     s == Strip(PyStr(cell))
                 IN  /\ processed.recs[k].date = parse_date_str(cell, claimed_hint)
                     /\ MatchMD(s) # <<>> => YearOf(processed.recs[k].date) = claimed_year
                     /\ (Len(s) = 8 /\ AllDigits(s) /\ ~IsExc(strptime_Ymd(s)))
                           => processed.recs[k].date = strptime_Ymd(s)

\* the department values the normaliser hands to clean_dept
dept_inputs ==
    IF is_matrix_format
    THEN LET nc == new_cols_of(df)
             key == fixed_key(nc, "dept")
         IN  {IF key # <<>> THEN row_get(nc, df.rows[i], key, PyNone)
              ELSE Str(<<"0", "0", "0">>) : i \in 1..Len(df.rows)}
    ELSE {Cell1(df, df.rows[i], COL_DEPT, PyInt(0)) : i \in 1..Len(df.rows)}

three_digits(v) == v.t = "str" /\ Len(v.s) = 3 /\ AllDigits(v.s)

\* C9: clean_dept raises on no input and returns a text of exactly 3 decimal
\* digits on every input, so the department of every record is one.
C9_DeptThreeDigits ==
    /\ (pc = "normalise" /\ df.exc = "") =>
          \A v \in dept_inputs : ~IsExc(clean_dept(v)) /\ three_digits(clean_dept(v))
    /\ (AfterList \/ AfterMatrix) =>
          /\ processed.exc # "OverflowError"
          /\ \A k \in 1..Len(processed.recs) : three_digits(processed.recs[k].department)

non_negative_number(v) == v.t = "num" /\ v.n >= 0 /\ v.f >= 0

\* C10: in every record of either normaliser quantity and unit_price are
\* numbers, not NaN or null, and not negative.
C10_NonNegative ==
    (AfterList \/ AfterMatrix) =>
        \A k \in 1..Len(processed.recs) :
            /\ non_negative_number(processed.recs[k].quantity)
            /\ non_negative_number(processed.recs[k].unit_price)

is_text(v) == v.t = "str"

\* the frame being normalised has no product-name column
no_name_column ==
    IF is_matrix_format THEN fixed_key(new_cols_of(df), "name") = <<>>
    ELSE find_column(df.columns, col_mappings[COL_NAME]) = <<>>

\* C11: in every record of either normaliser product_name and promotion are
\* strings, never null, and product_name is the empty string when the frame
\* has no name column.
C11_TextFields ==
    (AfterList \/ AfterMatrix) =>
        \A k \in 1..Len(processed.recs) :
            /\ is_text(processed.recs[k].product_name)
            /\ is_text(processed.recs[k].promotion)
            /\ no_name_column => processed.recs[k].product_name = Str(<<>>)

\* --- attempts as functions of the file --------------------------------------
\* the scanned list after n readlines from offset 0 of f in encoding e
scan_of(f, e, n) ==
    LET seen == SelectSeq(SubSeq(f.lines, 1, n), LAMBDA l : Decodes(f, l, e))
    IN  [i \in 1..Len(seen) |-> seen[i].fields]

Min(a, b) == IF a <= b THEN a ELSE b

\* the header rows an attempt hands to the parser
header_arg == IF is_matrix_format THEN <<header_row_idx, header_row_idx + 1>>
              ELSE <<header_row_idx>>

\* one attempt on f in encoding e, computed from the bytes of f alone:
\* whether a normaliser is called, and what it returns
attempt_of(f, e) ==
    LET raw == scan_of(f, e, Min(ScanLimit, Len(f.lines)))
        idx == find_header(raw)
        mat == classify_matrix(raw[idx + 1])
        d == read_csv(f, IF mat THEN <<idx, idx + 1>> ELSE <<idx>>, e)
    IN  IF raw = <<>> \/ idx = -1 THEN [called |-> FALSE, out |-> Frame(<<>>)]
        ELSE IF d.exc # "" THEN [called |-> FALSE, out |-> Frame(<<>>)]
        ELSE [called |-> TRUE,
              out |-> IF mat THEN process_format_2_from_df(d, year_hint_of(raw))
                      ELSE process_format_1(d)]

\* C12: attempts on a file are independent.  The file is never modified;
\* every header scan reads from offset 0 (after n readlines the position is
\* n and the scanned list is the decodable ones of the first n lines); every
\* tabular parse reads the whole file from offset 0; and what an attempt does
\* (whether it reaches a normaliser, and the normaliser's result) is the
\* function of the file and the encoding alone, whatever ran before it.
C12_Independent ==
    /\ [][file' = file]_vars
    /\ [](pc = "read" => pos = nread /\ raw_lines = scan_of(file, enc, nread))
    /\ [](pc = "normalise" => df = read_csv(file, header_arg, enc))
    /\ []((AfterList \/ AfterMatrix) =>
            LET a == attempt_of(file, enc)
            IN  a.called /\ Last(calls).enc = enc /\ Last(calls).out = a.out)
    /\ [](pc = "loop" /\ enc_i > 0 =>
            (attempt_of(file, enc).called <=> (calls # <<>> /\ Last(calls).enc = enc)))

\* a second attempt reached its normaliser after the first one had raised
C12_Witness ==
    /\ Len(calls) = 2
    /\ calls[1].out.exc = "OverflowError"
    /\ pc \in {"check", "except"}

\* --- the header offset ------------------------------------------------------
\* the lines of the file, among the first ScanLimit, on which the scan in the
\* current encoding finds the header keywords
keyword_lines ==
    {k \in 1..Min(ScanLimit, Len(file.lines)) :
        Decodes(file, file.lines[k], enc) /\ is_header_line(file.lines[k].fields)}

\* the position in the file (from 1) of the first of them
header_line == CHOOSE k \in keyword_lines : \A j \in keyword_lines : k <= j

\* C13: the header row index handed to the parser is the position in the
\* file (from 0) of the line on which the header keywords were found, also
\* after leading lines that are blank or do not decode, and the parser takes
\* its labels from that line (and, for two header rows, the line after it).
C13_HeaderAligned ==
    /\ pc = "parse" => header_row_idx = header_line - 1
    /\ (pc = "normalise" /\ ~is_matrix_format) =>
          df.columns = header1(file.lines[header_line].fields)
    /\ (pc = "normalise" /\ is_matrix_format) =>
          /\ header_line + 1 <= Len(file.lines)
          /\ df.columns = header2(file.lines[header_line].fields,
                                  file.lines[header_line + 1].fields)

====
